---- MODULE Spec2Model ----
(***************************************************************************)
(* Model of fake_api/internal/source/dummydb.py: the window calculation    *)
(* (getWindow), the yield curve (BasicSolarYieldFunc) and the series       *)
(* builder (DummyDatabase.get_predicted_solar_yields_for_location).        *)
(*                                                                         *)
(* Floating point values are modelled in fixed point:                      *)
(*   - a sine is an integer at scale SinScale (10000 = 1.0),               *)
(*   - an angle is an integer number of 1/86400 of a full turn, so that    *)
(*     the 24 hour period of the curve is 86400 units (one per second),    *)
(*   - a yield (YieldKW, ErrLow, ErrHigh of FakeYield) is an integer at    *)
(*     scale OutScale (100 = 1.0), every division rounding down,           *)
(*   - a random draw in [0,1) is k / RandLevels with k in 0..RandLevels-1. *)
(* Times are integer seconds since the epoch (the microseconds of the      *)
(* clock are dropped: getWindow truncates to midnight).                    *)
(***************************************************************************)
EXTENDS Integers, Sequences, FiniteSets

VARIABLES
    clock,        \* the wall clock, dt.datetime.now(tz=dt.UTC), in epoch seconds
    tz,           \* the process's local UTC offset in seconds (dt.datetime.fromtimestamp)
    rng,          \* the state of the shared random source (random.random)
    pc,           \* position of the running call
    location,     \* argument of get_predicted_solar_yields_for_location
    now1, now2,   \* the two clock values getWindow read
    start, end,   \* the window getWindow returned
    numSteps,     \* int((end - start) / step)
    yields,       \* the list the call builds and returns
    prev,         \* the call before the last one: what it read from the clock, its
                  \* location and the TimeUnix values of the list it returned
    timeUnix,     \* argument of a direct BasicSolarYieldFunc call / of one loop step
    scaleFactor,  \* argument of a direct BasicSolarYieldFunc call
    fakeYield     \* the FakeYield the last BasicSolarYieldFunc call returned

vars == <<clock, tz, rng, pc, location, now1, now2, start, end, numSteps,
          yields, prev, timeUnix, scaleFactor, fakeYield>>

----------------------------------------------------------------------------
(* Bounds of the model *)

\* number of levels of a random draw: random.random() is k / RandLevels
RandLevels == 3

\* Program constants
StepSeconds == 300
DefaultScaleFactor == 10000
WindowDays == 2

\* Fixed-point scales
SinScale == 100 * 100
OutScale == 10 * 10
DaySeconds == 24 * 3600

Draws == 0 .. (RandLevels - 1)

----------------------------------------------------------------------------
(* Arithmetic *)

\* a bug: round(x) in place of int(x)
Truncate_Round(x) == (x + OutScale \div 2) \div OutScale

\* int(x) of a float x held at scale OutScale: truncation towards zero
Truncate(x) == IF x >= 0 THEN x \div OutScale ELSE -((-x) \div OutScale)

\* floor(a * b / c) for a, b >= 0, c > 0, computed without exceeding 32 bits
MulDiv(a, b, c) ==
    LET q == a \div c
        r == a % c
    IN  q * b + (r * b) \div c

\* the angle of q/86400 turn, 0 <= q <= 10800 (45 degrees), in radians at scale SinScale
Radians(q) == (q * 31416 + 21600) \div 43200

\* sin and cos of an angle th (radians at SinScale, 0 <= th <= pi/4), at SinScale
SinPoly(th) ==
    LET t2 == (th * th) \div SinScale
        p1 == SinScale - t2 \div 42
        p2 == SinScale - (t2 * p1) \div (20 * SinScale)
        p3 == SinScale - (t2 * p2) \div (6 * SinScale)
    IN  (th * p3) \div SinScale

CosPoly(th) ==
    LET t2 == (th * th) \div SinScale
        p1 == SinScale - t2 \div 30
        p2 == SinScale - (t2 * p1) \div (12 * SinScale)
    IN  SinScale - (t2 * p2) \div (2 * SinScale)

\* sin of q/86400 turn for the first quadrant, 0 <= q <= 21600
SinQuadrant(q) ==
    IF q <= 10800 THEN SinPoly(Radians(q)) ELSE CosPoly(Radians(21600 - q))

\* math.sin of x/86400 turn (x any integer), at SinScale
Sin(x) ==
    LET r == x % 86400
    IN  IF r <= 21600 THEN SinQuadrant(r)
        ELSE IF r <= 43200 THEN SinQuadrant(43200 - r)
        ELSE IF r <= 64800 THEN -SinQuadrant(r - 43200)
        ELSE -SinQuadrant(86400 - r)

----------------------------------------------------------------------------
(* Calendar: dt.datetime.fromtimestamp(timeUnix), the local broken-down time *)

\* the proleptic Gregorian date of day number z (days since 1970-01-01)
CivilFromDays(z) ==
    LET zz  == z + 719468
        era == zz \div 146097
        doe == zz - era * 146097
        yoe == (doe - doe \div 1460 + doe \div 36524 - doe \div 146096) \div 365
        doy == doe - (365 * yoe + yoe \div 4 - yoe \div 100)
        mp  == (5 * doy + 2) \div 153
        d   == doy - (153 * mp + 2) \div 5 + 1
        m   == IF mp < 10 THEN mp + 3 ELSE mp - 9
    IN  [year |-> yoe + era * 400 + (IF m <= 2 THEN 1 ELSE 0), month |-> m, day |-> d]

fromtimestamp(t, offset) ==
    LET local == t + offset
        date  == CivilFromDays(local \div DaySeconds)
        sod   == local % DaySeconds
    IN  [month |-> date.month, day |-> date.day,
         hour |-> sod \div 3600, minute |-> (sod % 3600) \div 60, second |-> sod % 60]

----------------------------------------------------------------------------
(* The shared random source.  Its state is the word of the next three      *)
(* draws (a call of BasicSolarYieldFunc draws at most three times); the    *)
(* word repeats.                                                           *)

RngStates == Draws \X Draws \X Draws

random(r) == r[1]

advance(r) == <<r[2], r[3], r[1]>>

----------------------------------------------------------------------------
(* BasicSolarYieldFunc *)

\* line 50, in seconds: hour * 3600
HourSeconds(time) ==
    time.day * DaySeconds + time.hour * 3600 + time.minute * 60 + time.second

\* a bug: +math.pi / 2, which moves the peak of the curve to 0 hours
translateX_Forward == 6 * 3600

\* -math.pi / 2, a quarter turn back
translateX == -21600

\* line 59, at scale 2 * SinScale: math.sin((math.pi / 6) * month + translateX) / 2.0
translateY(time) == Sin(time.month * 7200 + translateX)

\* line 65, at scale 2 * SinScale: scaleX * hour is one unit per second
basefunc(time) == 2 * Sin(HourSeconds(time) + translateX) + translateY(time)

\* line 67: max(0, basefunc)
Clip(b) == IF b > 0 THEN b ELSE 0

\* line 69: basefunc**4 / 1.5**4, at scale 10^6 (1000000 = 1.0)
Steepen(b) ==
    LET sq == (b * b) \div (2 * SinScale)
    IN  (sq * sq) \div 2025

\* the denominator of the noise factor
NoiseDen == 2000 * RandLevels

\* a bug: the bias 0.97 subtracted
Noise_BiasSubtracted(time, k) ==
    LET envelope == (Sin(time.hour * 43200) * Sin(time.hour * 14400)) \div (20 * SinScale)
                    + SinScale
    IN  (envelope * k * 100) \div SinScale - 1940 * RandLevels

\* lines 74-75, at scale NoiseDen; k is the random draw
Noise(time, k) ==
    LET envelope == (Sin(time.hour * 43200) * Sin(time.hour * 14400)) \div (20 * SinScale)
                    + SinScale
    IN  (envelope * k * 100) \div SinScale + 1940 * RandLevels

\* line 78, at OutScale
Output(time, k, sf) ==
    MulDiv(MulDiv(Steepen(Clip(basefunc(time))), Noise(time, k), NoiseDen), sf, 10000)

\* a bug: random.random() * output / 5
ErrLowOf_Fifth(output, k) == output - (k * output) \div (5 * RandLevels)

\* line 84
ErrLowOf(output, k) == output - (k * output) \div (10 * RandLevels)

\* line 85
ErrHighOf(output, k) == output + (k * output) \div (10 * RandLevels)

\* lines 75-91: the FakeYield returned; r is the random source at the call
BasicSolarYieldFunc(t, sf, offset, r) ==
    LET time   == fromtimestamp(t, offset)
        output == Output(time, random(r), sf)
    IN  IF output > 0
        THEN [YieldKW |-> output,
              ErrLow  |-> ErrLowOf(output, random(advance(r))),
              ErrHigh |-> ErrHighOf(output, random(advance(advance(r))))]
        ELSE [YieldKW |-> output, ErrLow |-> 0, ErrHigh |-> 0]

\* the random source after the call: one draw, and two more when output > 0
RngAfter(y, r) ==
    IF y.YieldKW > 0 THEN advance(advance(advance(r))) ELSE advance(r)

\* lines 114-119: the record appended for time t
DBPredictedYield(t, y) ==
    [TimeUnix |-> t,
     YieldKW  |-> Truncate(y.YieldKW),
     ErrLow   |-> Truncate(y.ErrLow),
     ErrHigh  |-> Truncate(y.ErrHigh)]

----------------------------------------------------------------------------
(* get_predicted_solar_yields_for_location *)

\* .replace(hour=0, minute=0, second=0, microsecond=0) of a UTC time
Midnight(t) == t - (t % DaySeconds)

\* lines 25-27: the window start for the clock value now
WindowStart(now) == Midnight(now - WindowDays * DaySeconds)

\* lines 29-31: the window end for the clock value now
WindowEnd(now) == Midnight(now + WindowDays * DaySeconds)

\* a bug: the end of the window counted in
NumSteps_Inclusive(s, e) ==
    (IF e >= s THEN (e - s) \div StepSeconds ELSE -((s - e) \div StepSeconds)) + 1

\* a bug: the magnitude of the difference
NumSteps_Abs(s, e) ==
    IF e >= s THEN (e - s) \div StepSeconds ELSE (s - e) \div StepSeconds

\* line 107: int((end - start) / step), truncating towards zero
NumSteps(s, e) ==
    IF e >= s THEN (e - s) \div StepSeconds ELSE -((s - e) \div StepSeconds)

\* a bug: the steps counted from one
StepTime_FromOne(s, i) == s + (i + 1) * StepSeconds

\* line 111: time = start + i * step
StepTime(s, i) == s + i * StepSeconds

\* lines 111-120: one pass of the loop body, from the random source r
LoopBody(s, i, offset, r) ==
    LET time   == StepTime(s, i)
        \* _yield of the source
        yield  == BasicSolarYieldFunc(time, DefaultScaleFactor, offset, r)
    IN  [yields |-> <<DBPredictedYield(time, yield)>>, rng |-> RngAfter(yield, r)]

\* lines 110-120: the passes lo, lo+1, ... hi-1 of the loop in this order, from the
\* random source r: the records appended and the random source afterwards.
\* (The passes are taken by halves, which keeps the evaluation depth logarithmic;
\* the order of the passes and of the draws is that of the for loop.)
RECURSIVE Loop(_, _, _, _, _)
Loop(lo, hi, s, offset, r) ==
    IF hi <= lo THEN [yields |-> <<>>, rng |-> r]
    ELSE IF hi = lo + 1 THEN LoopBody(s, lo, offset, r)
    ELSE LET mid   == (lo + hi) \div 2
             left  == Loop(lo, mid, s, offset, r)
             right == Loop(mid, hi, s, offset, left.rng)
         IN  [yields |-> left.yields \o right.yields, rng |-> right.rng]

\* a bug: the series of one location shifted by half an hour
PredictedSeries_PerLocation(loc, s, e, offset, r) ==
    Loop(0, NumSteps(s, e), IF loc = "delhi" THEN s + 1800 ELSE s, offset, r)

\* lines 107-122 for the window (s, e); loc is the location argument
PredictedSeries(loc, s, e, offset, r) == Loop(0, NumSteps(s, e), s, offset, r)

----------------------------------------------------------------------------
(* Inputs and initial values *)

\* the local UTC offsets of the model: UTC and Asia/Kolkata
TZOffsets == {0, 19800}

Locations == {"mumbai", "delhi"}

NoYield == [YieldKW |-> 0, ErrLow |-> 0, ErrHigh |-> 0]

NoCall == [now1 |-> 0, now2 |-> 0, location |-> "", times |-> <<>>]

\* 2026-01-01T00:00:00Z
Epoch2026 == 20454 * DaySeconds

\* 2026-11-01T00:00:00Z
CallDay == Epoch2026 + 304 * DaySeconds

\* the clock values of the model: noon, the last second of the day, and the
\* first second of the next day
Instants == {CallDay + 12 * 3600, CallDay + DaySeconds - 1, CallDay + DaySeconds}

\* the TimeUnix values of a list of records
Times(ys) == [k \in 1 .. Len(ys) |-> ys[k].TimeUnix]

----------------------------------------------------------------------------
(* Calls of get_predicted_solar_yields_for_location under a running clock *)

Init ==
    /\ clock \in Instants
    /\ tz = 19800
    /\ rng = <<0, 1, RandLevels - 1>>
    /\ pc = "idle"
    /\ location = ""
    /\ now1 = 0 /\ now2 = 0 /\ start = 0 /\ end = 0 /\ numSteps = 0
    /\ yields = <<>>
    /\ prev = NoCall
    /\ timeUnix = 0
    /\ scaleFactor = DefaultScaleFactor
    /\ fakeYield = NoYield

\* time passes
Tick ==
    /\ \E t \in Instants : t > clock /\ clock' = t
    /\ UNCHANGED <<tz, rng, pc, location, now1, now2, start, end, numSteps, yields, prev,
                   timeUnix, scaleFactor, fakeYield>>

\* the call, up to the first reading of the clock (line 25)
Call(loc) ==
    /\ pc \in {"idle", "done"}
    /\ prev' = IF pc = "done"
               THEN [now1 |-> now1, now2 |-> now2, location |-> location,
                     times |-> Times(yields)]
               ELSE prev
    /\ location' = loc
    /\ now1' = clock
    /\ start' = WindowStart(clock)
    /\ now2' = 0 /\ end' = 0 /\ numSteps' = 0
    /\ yields' = <<>>
    /\ pc' = "window"
    /\ UNCHANGED <<clock, tz, rng, timeUnix, scaleFactor, fakeYield>>

\* the rest of the call: the second reading of the clock (line 29), the loop
\* and the return
Finish ==
    /\ pc = "window"
    /\ now2' = clock
    /\ end' = WindowEnd(clock)
    /\ numSteps' = NumSteps(start, end')
    /\ LET res == PredictedSeries(location, start, end', tz, rng)
       IN  yields' = res.yields /\ rng' = res.rng
    /\ pc' = "done"
    /\ UNCHANGED <<clock, tz, location, now1, start, prev, timeUnix, scaleFactor,
                   fakeYield>>

Next ==
    \/ Tick
    \/ \E loc \in Locations : Call(loc)
    \/ Finish

Spec == Init /\ [][Next]_vars

----------------------------------------------------------------------------
(* The loop for a given window (lines 107-122) *)

\* windows of -3 .. 3 days: those of getWindow, and those a wall clock set
\* back between its two readings gives
InputStarts == {CallDay + d * DaySeconds : d \in 0 .. 3}

InputEnds == {CallDay + d * DaySeconds : d \in 0 .. 3}

InitWindow ==
    /\ start \in InputStarts
    /\ end \in InputEnds
    /\ location \in Locations
    /\ tz \in TZOffsets
    /\ rng = <<0, 1, RandLevels - 1>>
    /\ pc = "window"
    /\ clock = CallDay
    /\ now1 = 0 /\ now2 = 0 /\ numSteps = 0
    /\ yields = <<>>
    /\ prev = NoCall
    /\ timeUnix = 0
    /\ scaleFactor = DefaultScaleFactor
    /\ fakeYield = NoYield

BuildSeries ==
    /\ pc = "window"
    /\ numSteps' = NumSteps(start, end)
    /\ LET res == PredictedSeries(location, start, end, tz, rng)
       IN  yields' = res.yields /\ rng' = res.rng
    /\ pc' = "done"
    /\ UNCHANGED <<clock, tz, location, now1, now2, start, end, prev, timeUnix,
                   scaleFactor, fakeYield>>

SpecWindow == InitWindow /\ [][BuildSeries]_vars

----------------------------------------------------------------------------
(* Direct calls of the yield curve and single steps of the loop *)

ScaleFactors == {0, DefaultScaleFactor, 2 * DefaultScaleFactor}

\* days of 2026, one in every month: Jan 1, Feb 15, Mar 31, Apr 15, May 15, Jun 21,
\* Jul 15, Aug 15, Sep 15, Oct 15, Nov 30, Dec 21; and Dec 31
InputDays == {0, 45, 89, 104, 134, 171, 195, 226, 257, 287, 333, 354, 364}

\* the times of a loop step: every step of the input days
StepInputs ==
    {Epoch2026 + d * DaySeconds + k * StepSeconds : d \in InputDays, k \in 0 .. 287}

\* the times of a direct call: every half hour of the input days, and seconds
\* off the steps
DirectInputs ==
    {Epoch2026 + d * DaySeconds + s :
        d \in InputDays, s \in {k * 1800 : k \in 0 .. 47} \cup {1, 23456, 43199, 86399}}

InitYield ==
    /\ \/ pc = "direct" /\ timeUnix \in DirectInputs
       \/ pc = "step" /\ timeUnix \in StepInputs
    /\ tz \in TZOffsets
    /\ rng \in RngStates
    /\ scaleFactor = DefaultScaleFactor
    /\ clock = Epoch2026
    /\ location = ""
    /\ now1 = 0 /\ now2 = 0 /\ start = 0 /\ end = 0 /\ numSteps = 0
    /\ yields = <<>>
    /\ prev = NoCall
    /\ fakeYield = NoYield

\* BasicSolarYieldFunc(timeUnix, sf)
CallYield(sf) ==
    /\ pc = "direct"
    /\ scaleFactor' = sf
    /\ fakeYield' = BasicSolarYieldFunc(timeUnix, sf, tz, rng)
    /\ rng' = RngAfter(fakeYield', rng)
    /\ pc' = "called"
    /\ UNCHANGED <<clock, tz, location, now1, now2, start, end, numSteps, yields, prev,
                   timeUnix>>

\* one pass of the loop body (lines 111-120) for time = timeUnix
LoopStep ==
    /\ pc = "step"
    /\ fakeYield' = BasicSolarYieldFunc(timeUnix, DefaultScaleFactor, tz, rng)
    /\ rng' = RngAfter(fakeYield', rng)
    /\ yields' = Append(yields, DBPredictedYield(timeUnix, fakeYield'))
    /\ pc' = "stepped"
    /\ UNCHANGED <<clock, tz, location, now1, now2, start, end, numSteps, prev, timeUnix,
                   scaleFactor>>

NextYield ==
    \/ \E sf \in ScaleFactors : CallYield(sf)
    \/ LoopStep

SpecYield == InitYield /\ [][NextYield]_vars


----------------------------------------------------------------------------
(* Properties *)

Returned == pc \in {"called", "stepped"}

LocalTime == fromtimestamp(timeUnix, tz)

\* C1: the records a call returns are in strictly increasing TimeUnix order,
\* consecutive records are exactly 300 seconds apart, the first record is at the
\* window start and the last one 300 seconds before the window end.
SeriesCoversWindow ==
    pc = "done" =>
        /\ \A k \in 1 .. Len(yields) - 1 :
              /\ yields[k].TimeUnix < yields[k + 1].TimeUnix
              /\ yields[k + 1].TimeUnix - yields[k].TimeUnix = 300
        /\ Len(yields) > 0 =>
              /\ yields[1].TimeUnix = start
              /\ yields[Len(yields)].TimeUnix = end - 300

SeriesCoversWindowWitness ==
    /\ pc = "done"
    /\ now1 < now2
    /\ Len(yields) > 1
    /\ yields[Len(yields)].TimeUnix = end - 300

\* C2: for the window getWindow computed, the call returns floor((end - start) / 300)
\* records, one for every step index 0 .. numSteps - 1, none skipped or repeated.
SeriesLength ==
    pc = "done" =>
        /\ Len(yields) = (end - start) \div 300
        /\ Len(yields) = numSteps
        /\ \A k \in 1 .. Len(yields) : yields[k].TimeUnix = start + (k - 1) * StepSeconds

SeriesLengthWitness ==
    /\ pc = "done"
    /\ end - start = 4 * DaySeconds
    /\ Len(yields) = 1152

\* C3: two calls that read the same clock values return lists of the same length
\* with the same TimeUnix values position by position, whatever their locations
\* and whatever the random source drew.
LocationIsNoOp ==
    (pc = "done" /\ prev # NoCall /\ prev.now1 = now1 /\ prev.now2 = now2) =>
        /\ Len(prev.times) = Len(yields)
        /\ \A k \in 1 .. Len(yields) : prev.times[k] = yields[k].TimeUnix

LocationIsNoOpWitness ==
    /\ pc = "done"
    /\ prev # NoCall
    /\ prev.now1 = now1 /\ prev.now2 = now2
    /\ prev.location # location
    /\ Len(yields) > 0
    /\ prev.times = Times(yields)

\* C4: for every time, every draw and every scale factor >= 0 the yield curve
\* returns YieldKW >= 0 (and ErrLow, ErrHigh >= 0), and so does every record.
YieldNonNegative ==
    /\ Returned =>
          /\ scaleFactor >= 0
          /\ fakeYield.YieldKW >= 0 /\ fakeYield.ErrLow >= 0 /\ fakeYield.ErrHigh >= 0
    /\ \A k \in 1 .. Len(yields) :
          yields[k].YieldKW >= 0 /\ yields[k].ErrLow >= 0 /\ yields[k].ErrHigh >= 0

\* a call at night: the curve is negative before max(0, basefunc)
YieldNonNegativeWitness ==
    /\ pc = "called"
    /\ scaleFactor > 0
    /\ basefunc(LocalTime) < 0
    /\ fakeYield = NoYield

\* C5: a FakeYield with YieldKW = 0 has ErrLow = 0 and ErrHigh = 0, and a record
\* with YieldKW = 0 has ErrLow = 0 and ErrHigh = 0 (also when the yield before
\* truncation lies strictly between 0 and 1).
ZeroYieldZeroBounds ==
    /\ (Returned /\ fakeYield.YieldKW = 0) =>
          (fakeYield.ErrLow = 0 /\ fakeYield.ErrHigh = 0)
    /\ \A k \in 1 .. Len(yields) :
          yields[k].YieldKW = 0 => (yields[k].ErrLow = 0 /\ yields[k].ErrHigh = 0)

\* a record of a yield strictly between 0 and 1, with a wider upper bound
ZeroYieldZeroBoundsWitness ==
    /\ pc = "stepped"
    /\ fakeYield.YieldKW > 0 /\ fakeYield.YieldKW < OutScale
    /\ fakeYield.ErrHigh > fakeYield.YieldKW
    /\ yields[1].YieldKW = 0 /\ yields[1].ErrLow = 0 /\ yields[1].ErrHigh = 0

\* C6: when YieldKW > 0, 0.9 * YieldKW <= ErrLow <= YieldKW <= ErrHigh <= 1.1 * YieldKW.
ErrorBounds ==
    (Returned /\ fakeYield.YieldKW > 0) =>
        /\ 9 * fakeYield.YieldKW <= 10 * fakeYield.ErrLow
        /\ fakeYield.ErrLow <= fakeYield.YieldKW
        /\ fakeYield.YieldKW <= fakeYield.ErrHigh
        /\ 10 * fakeYield.ErrHigh <= 11 * fakeYield.YieldKW

ErrorBoundsWitness ==
    /\ pc = "called"
    /\ fakeYield.YieldKW > 0
    /\ fakeYield.ErrLow < fakeYield.YieldKW
    /\ fakeYield.YieldKW < fakeYield.ErrHigh

\* C7: at 12:00:00 local time, in a month other than June and December, the
\* curve (with the default scale factor) returns YieldKW > 0; at 00:00:00 local
\* time, in any month and on any day, it returns YieldKW = ErrLow = ErrHigh = 0.
NoonAndMidnight ==
    Returned =>
        /\ ( /\ LocalTime.hour = 12 /\ LocalTime.minute = 0 /\ LocalTime.second = 0
             /\ LocalTime.month \notin {6, 12}
             /\ scaleFactor = DefaultScaleFactor )
           => fakeYield.YieldKW > 0
        /\ (LocalTime.hour = 0 /\ LocalTime.minute = 0 /\ LocalTime.second = 0)
           => fakeYield = NoYield

\* noon of November 30 in Asia/Kolkata
NoonAndMidnightWitness ==
    /\ pc = "called"
    /\ tz = 19800
    /\ LocalTime.month = 11
    /\ LocalTime.hour = 12 /\ LocalTime.minute = 0 /\ LocalTime.second = 0
    /\ scaleFactor = DefaultScaleFactor
    /\ fakeYield.YieldKW > 0

\* C8: the call returns a list for every window (no branch of lines 107-122
\* raises); the list is empty when the window is degenerate (end <= start, so
\* numSteps <= 0), and only then.
EmptyOnlyIfDegenerate ==
    pc = "done" =>
        /\ end <= start <=> numSteps <= 0
        /\ yields = <<>> <=> end <= start

EmptyOnlyIfDegenerateWitness ==
    /\ pc = "done"
    /\ end < start
    /\ numSteps < 0
    /\ yields = <<>>

\* C9: whenever the clock is read and however it advances during the call,
\* start and end are UTC midnights, start is two days before the day of the
\* call, end - start is exactly 4 days and the list has exactly 1152 records.
WindowIsFourDays ==
    pc = "done" =>
        /\ start % DaySeconds = 0 /\ end % DaySeconds = 0
        /\ start = Midnight(now1) - WindowDays * DaySeconds
        /\ end - start = 4 * DaySeconds
        /\ Len(yields) = 1152

\* C10: the steepened base value lies in [0, 1] and YieldKW <= scaleFactor.
PeakIsScaleFactor ==
    Returned =>
        /\ Steepen(Clip(basefunc(LocalTime))) \in 0 .. 1000000
        /\ fakeYield.YieldKW <= scaleFactor * OutScale

====
